---- MODULE Spec2Model ----
(***************************************************************************)
(* Model of the bursty traffic generator: the trace burst generator        *)
(* (burst_generators.py), the fragmentation function fragment_burst and    *)
(* the sender loop of main (vr_burst_sender.py).                           *)
(*                                                                         *)
(* Times (periods, start_time, cumulative_start) are whole ticks; sizes    *)
(* are bytes.                                                              *)
(***************************************************************************)
EXTENDS Integers, Sequences, FiniteSets

VARIABLES
    pc,                 \* position of the program
    generator,          \* kind of the constructed generator: "none", "trace", "vr"
    trace_file,         \* rows of the trace file, in file order
    _start_time,        \* TraceFileBurstGenerator._start_time
    _bursts,            \* TraceFileBurstGenerator._bursts (deque of <<size, period>>)
    _trace_duration,    \* TraceFileBurstGenerator._trace_duration
    fragment_size,      \* args.fragment_size / fragment_burst's fragment_size
    max_bursts,         \* args.max_bursts: <<>> is None, <<n>> is the integer n
    burst_seq,          \* main: burst_seq
    bursts_sent,        \* main: bursts_sent
    burst_size,         \* main: burst_size / fragment_burst's burst_size
    period,             \* main: period
    burst_payload,      \* main: burst_payload (fragment_burst's first result)
    fragment_payloads,  \* main: fragment_payloads (fragment_burst's second result)
    frag_idx,           \* main: frag_idx of the next fragment to send
    events,             \* what the program did so far: pulls, frames sent, sleeps
    error               \* message of the exception raised, "" when none

vars == <<pc, generator, trace_file, _start_time, _bursts, _trace_duration,
          fragment_size, max_bursts, burst_seq, bursts_sent, burst_size, period,
          burst_payload, fragment_payloads, frag_idx, events, error>>

(***************************************************************************)
(* Bounds of the model.                                                    *)
(***************************************************************************)
MaxBurst == 130
MaxFrag == 100
MaxRows == 3        \* rows of a trace file
MaxPeriod == 2      \* largest period of a trace row, in ticks
MaxStart == 3       \* largest start_time, in ticks
MaxBudget == 2      \* largest --max-bursts
MaxPulls == 3       \* bursts drawn from the endless VR generator in one run

(***************************************************************************)
(* Program constants.                                                      *)
(***************************************************************************)
SEQTS_SIZE_FRAG_HEADER_LEN == 24
\* HEADER_STRUCT "!HHQIQ": the largest value its two H fields pack. The I and
\* Q fields (burst_seq, burst_payload) hold every value a run of the model
\* produces.
MaxU16 == 65535
\* VrBurstGenerator.generate_burst: the floor of the burst size
VrMinBurst == 24

ErrBurstSmall == "Burst size must be at least the header size"
ErrFragSmall == "Fragment size must be at least the header size"
ErrSecondToLastSmall == "Second-to-last fragment would be too small"
ErrLastSmall == "Last fragment would be too small"
ErrInvalidRow == "Invalid row"
ErrNegativePeriod == "Period must be non-negative"
ErrNoBursts == "No bursts found"
ErrConsumed == "All bursts have been consumed"
ErrPack == "struct.error"
ErrSendto == "sendto failed"

(***************************************************************************)
(* Helpers.                                                                *)
(***************************************************************************)
\* [x] * n of Python: n copies of x
Repeat(x, n) == [i \in 1..n |-> x]

RECURSIVE SumSeq(_)
SumSeq(s) == IF s = <<>> THEN 0 ELSE Head(s) + SumSeq(Tail(s))

SeqsUpTo(S, n) == UNION {[1..k -> S] : k \in 0..n}

(***************************************************************************)
(* fragment_burst, vr_burst_sender.py lines 41-85.                         *)
(***************************************************************************)
\* lines 58-60: one full fragment is reserved as the second-to-last one
ReservedSecondToLast(num_full_frags, frag_size) ==
    IF num_full_frags > 0 THEN frag_size ELSE 0

NumFullNoDecrement(num_full_frags) == num_full_frags

NumFullAfterReserve(num_full_frags) ==
    IF num_full_frags > 0 THEN num_full_frags - 1 ELSE num_full_frags

MergeAppliesNoZeroTest(second_to_last_size, last_frag_size) ==
    /\ second_to_last_size > 0
    /\ last_frag_size < SEQTS_SIZE_FRAG_HEADER_LEN

\* lines 62-66: the condition of the trailing-remainder merge
MergeApplies(second_to_last_size, last_frag_size) ==
    /\ second_to_last_size > 0
    /\ last_frag_size > 0
    /\ last_frag_size < SEQTS_SIZE_FRAG_HEADER_LEN

MergedNoHeaderMove(frag_size, last_frag_size) == frag_size + last_frag_size

\* line 67: the second-to-last fragment after the merge
MergedSecondToLast(frag_size, last_frag_size) ==
    frag_size + last_frag_size - SEQTS_SIZE_FRAG_HEADER_LEN

TooSmallNever(size) == FALSE

TooSmallZeroToo(size) == size < SEQTS_SIZE_FRAG_HEADER_LEN

\* lines 70 and 72: "size and size < SEQTS_SIZE_FRAG_HEADER_LEN"
TooSmall(size) == size # 0 /\ size < SEQTS_SIZE_FRAG_HEADER_LEN

Raised(msg) == [err |-> msg, burst_payload |-> 0, fragments |-> <<>>]

fragment_burst(b_size, f_size) ==
    IF b_size < SEQTS_SIZE_FRAG_HEADER_LEN THEN Raised(ErrBurstSmall)
    ELSE IF f_size < SEQTS_SIZE_FRAG_HEADER_LEN THEN Raised(ErrFragSmall)
    ELSE
    LET num_full_0 == b_size \div f_size
        last_0 == b_size % f_size
        second_0 == ReservedSecondToLast(num_full_0, f_size)
        num_full_frags == NumFullAfterReserve(num_full_0)
        merge == MergeApplies(second_0, last_0)
        second_to_last_size ==
            IF merge THEN MergedSecondToLast(f_size, last_0) ELSE second_0
        last_frag_size ==
            IF merge THEN SEQTS_SIZE_FRAG_HEADER_LEN ELSE last_0
    IN  IF TooSmall(second_to_last_size) THEN Raised(ErrSecondToLastSmall)
        ELSE IF TooSmall(last_frag_size) THEN Raised(ErrLastSmall)
        ELSE
        LET full_payload == f_size - SEQTS_SIZE_FRAG_HEADER_LEN
            fragments ==
                Repeat(full_payload, num_full_frags)
                \o (IF second_to_last_size # 0
                    THEN <<second_to_last_size - SEQTS_SIZE_FRAG_HEADER_LEN>>
                    ELSE <<>>)
                \o (IF last_frag_size # 0
                    THEN <<last_frag_size - SEQTS_SIZE_FRAG_HEADER_LEN>>
                    ELSE <<>>)
            total_frags == Len(fragments)
        IN  [err |-> "",
             burst_payload |-> b_size - SEQTS_SIZE_FRAG_HEADER_LEN * total_frags,
             fragments |-> fragments]

(***************************************************************************)
(* Specification SpecFrag: fragment_burst called once on every pair of     *)
(* arguments within the bounds, and on the two scenarios with the default  *)
(* fragment size 1200.                                                     *)
(***************************************************************************)
BurstSizes == (0..MaxBurst) \cup {1210, 2500}
FragmentSizes == (0..MaxFrag) \cup {1200}

InitFrag ==
    /\ pc = "frag_call"
    /\ burst_size \in BurstSizes
    /\ fragment_size \in FragmentSizes
    /\ generator = "none"
    /\ trace_file = <<>>
    /\ _start_time = 0
    /\ _bursts = <<>>
    /\ _trace_duration = 0
    /\ max_bursts = <<>>
    /\ burst_seq = 0
    /\ bursts_sent = 0
    /\ period = 0
    /\ burst_payload = 0
    /\ fragment_payloads = <<>>
    /\ frag_idx = 0
    /\ events = <<>>
    /\ error = ""

FragmentBurstCall ==
    /\ pc = "frag_call"
    /\ LET res == fragment_burst(burst_size, fragment_size)
       IN  /\ error' = res.err
           /\ burst_payload' = res.burst_payload
           /\ fragment_payloads' = res.fragments
           /\ pc' = IF res.err = "" THEN "frag_returned" ELSE "frag_raised"
    /\ UNCHANGED <<generator, trace_file, _start_time, _bursts, _trace_duration,
                   fragment_size, max_bursts, burst_seq, bursts_sent, burst_size,
                   period, frag_idx, events>>

NextFrag == FragmentBurstCall

SpecFrag == InitFrag /\ [][NextFrag]_vars

(***************************************************************************)
(* TraceFileBurstGenerator, burst_generators.py lines 35-95.               *)
(*                                                                         *)
(* A row of the file is what csv.reader and the two conversions make of    *)
(* it: "blank" (an empty row), "comment" (first column empty or starting   *)
(* with #), "malformed" (int() or float() raises, or the second column is  *)
(* missing) or "data" with its burst size and period.                      *)
(***************************************************************************)
BlankRow == [kind |-> "blank", size |-> 0, period |-> 0]
CommentRow == [kind |-> "comment", size |-> 0, period |-> 0]
MalformedRow == [kind |-> "malformed", size |-> 0, period |-> 0]
DataRow(size, per) == [kind |-> "data", size |-> size, period |-> per]

\* lines 56-62: rows the loader passes over
Skipped(row) == row.kind \in {"blank", "comment"}

RetainedStrict(cumulative_start, start) == cumulative_start > start

\* line 74: the row is kept when it starts at or after start_time
Retained(cumulative_start, start) == cumulative_start >= start

\* lines 52-81: the loop over the rows, then the check that something is left
RECURSIVE LoadRows(_, _, _, _, _)
LoadRows(rows, cumulative_start, queue, duration, start) ==
    IF rows = <<>>
    THEN [err |-> IF queue = <<>> THEN ErrNoBursts ELSE "",
          bursts |-> queue, duration |-> duration]
    ELSE
    LET row == Head(rows)
    IN  IF Skipped(row)
        THEN LoadRows(Tail(rows), cumulative_start, queue, duration, start)
        ELSE IF row.kind = "malformed"
        THEN [err |-> ErrInvalidRow, bursts |-> queue, duration |-> duration]
        ELSE IF row.period < 0
        THEN [err |-> ErrNegativePeriod, bursts |-> queue, duration |-> duration]
        ELSE IF Retained(cumulative_start, start)
        THEN LoadRows(Tail(rows), cumulative_start + row.period,
                      Append(queue, <<row.size, row.period>>),
                      duration + row.period, start)
        ELSE LoadRows(Tail(rows), cumulative_start + row.period,
                      queue, duration, start)

\* lines 51-52: _load_trace on a fresh generator
_load_trace(rows, start) == LoadRows(rows, 0, <<>>, 0, start)

\* lines 89-90
has_next_burst == _bursts # <<>>

PullEvent(burst) == [type |-> "pull", size |-> burst[1], period |-> burst[2]]

(***************************************************************************)
(* Specification SpecTrace: a generator is constructed on a trace file and *)
(* a client calls generate_burst, also when nothing is left.               *)
(***************************************************************************)
TraceSizes == {10, 130}
TraceRows ==
    {BlankRow, CommentRow, MalformedRow}
    \cup {DataRow(sz, per) : sz \in TraceSizes, per \in (-1)..MaxPeriod}
TraceFiles == SeqsUpTo(TraceRows, MaxRows)

InitTrace ==
    /\ pc = "construct"
    /\ trace_file \in TraceFiles
    /\ generator = "none"
    /\ _start_time = 0
    /\ _bursts = <<>>
    /\ _trace_duration = 0
    /\ fragment_size = 0
    /\ max_bursts = <<>>
    /\ burst_seq = 0
    /\ bursts_sent = 0
    /\ burst_size = 0
    /\ period = 0
    /\ burst_payload = 0
    /\ fragment_payloads = <<>>
    /\ frag_idx = 0
    /\ events = <<>>
    /\ error = ""

\* lines 44-49: TraceFileBurstGenerator(trace_file, start_time)
Construct ==
    /\ pc = "construct"
    /\ \E start \in 0..MaxStart :
          LET res == _load_trace(trace_file, start)
          IN  /\ _start_time' = start
              /\ _bursts' = res.bursts
              /\ _trace_duration' = res.duration
              /\ error' = res.err
              /\ generator' = IF res.err = "" THEN "trace" ELSE "none"
              /\ pc' = IF res.err = "" THEN "ready" ELSE "raised"
    /\ UNCHANGED <<trace_file, fragment_size, max_bursts, burst_seq, bursts_sent,
                   burst_size, period, burst_payload, fragment_payloads,
                   frag_idx, events>>

\* lines 92-95: generate_burst called by a client
GenerateBurst ==
    /\ pc = "ready"
    /\ IF _bursts = <<>>
       THEN /\ error' = ErrConsumed
            /\ pc' = "raised"
            /\ UNCHANGED <<_bursts, burst_size, period, events>>
       ELSE /\ burst_size' = Head(_bursts)[1]
            /\ period' = Head(_bursts)[2]
            /\ _bursts' = Tail(_bursts)
            /\ events' = Append(events, PullEvent(Head(_bursts)))
            /\ UNCHANGED <<error, pc>>
    /\ UNCHANGED <<generator, trace_file, _start_time, _trace_duration,
                   fragment_size, max_bursts, burst_seq, bursts_sent,
                   burst_payload, fragment_payloads, frag_idx>>

NextTrace == Construct \/ GenerateBurst

SpecTrace == InitTrace /\ [][NextTrace]_vars

(***************************************************************************)
(* VrBurstGenerator.generate_burst, burst_generators.py lines 224-231.     *)
(* A sample of the two bounded logistic variables is a choice from a set;  *)
(* the generator floors the size at 24 and the period at 0.                *)
(***************************************************************************)
Max(a, b) == IF a >= b THEN a ELSE b

FrameSamples == {0, 48, 100}
PeriodSamples == {-1, 0, 2}

VrBurst(frame_sample, period_sample) ==
    <<Max(frame_sample, VrMinBurst), Max(period_sample, 0)>>

(***************************************************************************)
(* main, vr_burst_sender.py lines 190-241.                                 *)
(*                                                                         *)
(* events records what the run did: a "pull" for every burst taken from    *)
(* the generator, a "frame" for every packet handed to sendto with the     *)
(* header fields it carries (the timestamp left out), a "sleep" for every  *)
(* time.sleep.                                                             *)
(***************************************************************************)
FrameEvent(f_idx, total, payload, seq, payload_len) ==
    [type |-> "frame", frag_seq |-> f_idx, total_frags |-> total,
     burst_payload |-> payload, burst_seq |-> seq,
     len |-> SEQTS_SIZE_FRAG_HEADER_LEN + payload_len]

SleepEvent(per) == [type |-> "sleep", period |-> per]

\* lines 31-38: HEADER_STRUCT.pack raises struct.error on a value out of range
PackOk(f_idx, total, payload, seq) ==
    /\ 0 <= f_idx /\ f_idx <= MaxU16
    /\ 0 <= total /\ total <= MaxU16
    /\ 0 <= payload
    /\ 0 <= seq

SkipsBurstNever(size) == FALSE

\* line 209: a burst below the header length is passed over
SkipsBurst(size) == size < SEQTS_SIZE_FRAG_HEADER_LEN

NextBurstSeqStuck(seq) == seq

\* line 236
NextBurstSeq(seq) == seq + 1

\* line 238: the burst budget is reached
BudgetReached(sent, budget) == budget # <<>> /\ sent >= budget[1]

\* line 240
SleepNeeded(per) == per > 0

PumpSizes == {10, 48, 100}
PumpPeriods == {0, 2}
PumpRows == {DataRow(sz, per) : sz \in PumpSizes, per \in PumpPeriods}
PumpTraceFiles == SeqsUpTo(PumpRows, MaxRows)
PumpFragmentSizes == {30, 40, 48}
PumpStarts == {0, 2}
Budgets == {<<>>} \cup {<<n>> : n \in 0..MaxBudget}

InitPump ==
    /\ pc = "main"
    /\ trace_file \in PumpTraceFiles
    /\ generator = "none"
    /\ _start_time = 0
    /\ _bursts = <<>>
    /\ _trace_duration = 0
    /\ fragment_size = 0
    /\ max_bursts = <<>>
    /\ burst_seq = 0
    /\ bursts_sent = 0
    /\ burst_size = 0
    /\ period = 0
    /\ burst_payload = 0
    /\ fragment_payloads = <<>>
    /\ frag_idx = 0
    /\ events = <<>>
    /\ error = ""

\* lines 191-206 with --generator trace
MainTrace ==
    /\ pc = "main"
    /\ \E start \in PumpStarts, f_size \in PumpFragmentSizes, budget \in Budgets :
          LET res == _load_trace(trace_file, start)
          IN  /\ _start_time' = start
              /\ _bursts' = res.bursts
              /\ _trace_duration' = res.duration
              /\ error' = res.err
              /\ generator' = IF res.err = "" THEN "trace" ELSE "none"
              /\ pc' = IF res.err = "" THEN "loop" ELSE "crashed"
              /\ fragment_size' = f_size
              /\ max_bursts' = budget
    /\ burst_seq' = 0
    /\ bursts_sent' = 0
    /\ UNCHANGED <<trace_file, burst_size, period, burst_payload,
                   fragment_payloads, frag_idx, events>>

\* lines 191-206 with --generator vr (no trace file is read)
MainVr ==
    /\ pc = "main"
    /\ trace_file = <<>>
    /\ \E f_size \in PumpFragmentSizes, budget \in Budgets :
          /\ fragment_size' = f_size
          /\ max_bursts' = budget
    /\ generator' = "vr"
    /\ pc' = "loop"
    /\ burst_seq' = 0
    /\ bursts_sent' = 0
    /\ UNCHANGED <<trace_file, _start_time, _bursts, _trace_duration, burst_size,
                   period, burst_payload, fragment_payloads, frag_idx, events,
                   error>>

\* what lines 209-216 do with the burst just pulled
Dispatch(burst) ==
    /\ burst_size' = burst[1]
    /\ period' = burst[2]
    /\ events' = Append(events, PullEvent(burst))
    /\ frag_idx' = 0
    /\ IF SkipsBurst(burst[1])
       THEN /\ pc' = "loop"
            /\ UNCHANGED <<burst_payload, fragment_payloads, error>>
       ELSE LET res == fragment_burst(burst[1], fragment_size)
            IN  /\ burst_payload' = res.burst_payload
                /\ fragment_payloads' = res.fragments
                /\ error' = res.err
                /\ pc' = IF res.err = "" THEN "emit" ELSE "crashed"

\* lines 207-216: the loop test holds, a burst is pulled from the generator
PullBurst ==
    /\ pc = "loop"
    /\ \/ /\ generator = "trace"
          /\ has_next_burst
          /\ _bursts' = Tail(_bursts)
          /\ Dispatch(Head(_bursts))
       \/ /\ generator = "vr"
          /\ Len(SelectSeq(events, LAMBDA e : e.type = "pull")) < MaxPulls
          /\ UNCHANGED _bursts
          /\ \E fs \in FrameSamples, ps \in PeriodSamples : Dispatch(VrBurst(fs, ps))
    /\ UNCHANGED <<generator, trace_file, _start_time, _trace_duration,
                   fragment_size, max_bursts, burst_seq, bursts_sent>>

\* line 207: the generator has no burst left, the loop and the program end
LoopExit ==
    /\ pc = "loop"
    /\ generator = "trace"
    /\ ~has_next_burst
    /\ pc' = "done"
    /\ UNCHANGED <<generator, trace_file, _start_time, _bursts, _trace_duration,
                   fragment_size, max_bursts, burst_seq, bursts_sent, burst_size,
                   period, burst_payload, fragment_payloads, frag_idx, events,
                   error>>

\* lines 218-235: one pass of the loop over the fragments
SendFragment ==
    /\ pc = "emit"
    /\ frag_idx < Len(fragment_payloads)
    /\ LET total_frags == Len(fragment_payloads)
           payload_len == fragment_payloads[frag_idx + 1]
       IN  IF PackOk(frag_idx, total_frags, burst_payload, burst_seq)
           THEN /\ events' = Append(events,
                       FrameEvent(frag_idx, total_frags, burst_payload,
                                  burst_seq, payload_len))
                /\ frag_idx' = frag_idx + 1
                /\ pc' = IF frag_idx + 1 = total_frags THEN "post" ELSE "emit"
                /\ UNCHANGED error
           ELSE /\ error' = ErrPack
                /\ pc' = "crashed"
                /\ UNCHANGED <<events, frag_idx>>
    /\ UNCHANGED <<generator, trace_file, _start_time, _bursts, _trace_duration,
                   fragment_size, max_bursts, burst_seq, bursts_sent, burst_size,
                   period, burst_payload, fragment_payloads>>

\* line 225: sock.sendto raises, the exception ends the program
SendtoRaises ==
    /\ pc = "emit"
    /\ frag_idx < Len(fragment_payloads)
    /\ PackOk(frag_idx, Len(fragment_payloads), burst_payload, burst_seq)
    /\ error' = ErrSendto
    /\ pc' = "crashed"
    /\ UNCHANGED <<generator, trace_file, _start_time, _bursts, _trace_duration,
                   fragment_size, max_bursts, burst_seq, bursts_sent, burst_size,
                   period, burst_payload, fragment_payloads, frag_idx, events>>

\* lines 236-241: after the last fragment, up to the call of time.sleep
FinishBurst ==
    /\ pc = "post"
    /\ burst_seq' = NextBurstSeq(burst_seq)
    /\ bursts_sent' = bursts_sent + 1
    /\ IF BudgetReached(bursts_sent + 1, max_bursts)
       THEN /\ pc' = "done"
            /\ UNCHANGED events
       ELSE IF SleepNeeded(period)
       THEN /\ pc' = "sleep"
            /\ events' = Append(events, SleepEvent(period))
       ELSE /\ pc' = "loop"
            /\ UNCHANGED events
    /\ UNCHANGED <<generator, trace_file, _start_time, _bursts, _trace_duration,
                   fragment_size, max_bursts, burst_size, period, burst_payload,
                   fragment_payloads, frag_idx, error>>

\* line 241: time.sleep returns
Wake ==
    /\ pc = "sleep"
    /\ pc' = "loop"
    /\ UNCHANGED <<generator, trace_file, _start_time, _bursts, _trace_duration,
                   fragment_size, max_bursts, burst_seq, bursts_sent, burst_size,
                   period, burst_payload, fragment_payloads, frag_idx, events,
                   error>>

NextPump ==
    \/ MainTrace
    \/ MainVr
    \/ PullBurst
    \/ LoopExit
    \/ SendFragment
    \/ SendtoRaises
    \/ FinishBurst
    \/ Wake

SpecPump == InitPump /\ [][NextPump]_vars

(***************************************************************************)
(* Properties of fragment_burst, under SpecFrag.                           *)
(***************************************************************************)
FragReturned == pc = "frag_returned"

FragPrecondition ==
    /\ burst_size >= SEQTS_SIZE_FRAG_HEADER_LEN
    /\ fragment_size >= SEQTS_SIZE_FRAG_HEADER_LEN

\* r = burst_size mod capacity, for a capacity that passed the precondition
Remainder == IF fragment_size > 0 THEN burst_size % fragment_size ELSE 0

\* burst_size >= capacity and r lies strictly between 0 and the header length
ShortRemainder ==
    /\ burst_size >= fragment_size
    /\ Remainder > 0
    /\ Remainder < SEQTS_SIZE_FRAG_HEADER_LEN

\* C1: fragmentation conservation. Whenever fragment_burst returns for a burst
\* size and a capacity of at least 24, the payload lengths plus 24 bytes of
\* header per fragment add up to the burst size, and the returned
\* burst_payload is the sum of the payload lengths.
C1_Conservation ==
    (FragReturned /\ FragPrecondition) =>
        /\ SumSeq(fragment_payloads)
             + SEQTS_SIZE_FRAG_HEADER_LEN * Len(fragment_payloads) = burst_size
        /\ burst_payload = SumSeq(fragment_payloads)

C1_Witness ==
    /\ FragReturned
    /\ burst_size = 2500
    /\ fragment_size = 1200
    /\ fragment_payloads = <<1176, 1176, 76>>
    /\ burst_payload = 2428

\* C2 as stated: whenever fragment_burst returns, every payload length is >= 0
\* and no fragment other than the final one has payload length 0.
C2_NoZeroBeforeLast ==
    (FragReturned /\ FragPrecondition) =>
        /\ \A i \in 1..Len(fragment_payloads) : fragment_payloads[i] >= 0
        /\ \A i \in 1..(Len(fragment_payloads) - 1) : fragment_payloads[i] # 0

\* C2 as amended: whenever fragment_burst returns, every payload length is
\* >= 0, and a fragment other than the final one has payload length 0 only
\* when the capacity is exactly 24 (every full fragment is header-only) or
\* when it is the second-to-last fragment of a merged tail with
\* capacity + r = 48; so for a capacity of 48 or more no fragment other than
\* the final one has payload length 0.
C2_ZeroOnlyAtHeaderSizedFragments ==
    (FragReturned /\ FragPrecondition) =>
        /\ \A i \in 1..Len(fragment_payloads) : fragment_payloads[i] >= 0
        /\ \A i \in 1..(Len(fragment_payloads) - 1) :
              fragment_payloads[i] = 0 =>
                  \/ fragment_size = SEQTS_SIZE_FRAG_HEADER_LEN
                  \/ /\ i = Len(fragment_payloads) - 1
                     /\ ShortRemainder
                     /\ fragment_size + Remainder
                          = 2 * SEQTS_SIZE_FRAG_HEADER_LEN
        /\ fragment_size >= 2 * SEQTS_SIZE_FRAG_HEADER_LEN =>
              \A i \in 1..(Len(fragment_payloads) - 1) : fragment_payloads[i] # 0

C2_Witness ==
    /\ FragReturned
    /\ fragment_size = 40
    /\ burst_size = 88
    /\ fragment_payloads = <<16, 0, 0>>

\* the payload lengths C3 states for a burst size and a capacity
C3_Expected(b, c) ==
    LET q == b \div c
        r == b % c
    IN  IF b >= c /\ 0 < r /\ r < 24
        THEN Repeat(c - 24, q - 1) \o <<c + r - 48>> \o <<0>>
        ELSE Repeat(c - 24, q) \o (IF r > 0 THEN <<r - 24>> ELSE <<>>)

\* C3: trailing-remainder merge rule. When burst_size >= capacity and
\* 0 < r < 24, a returning fragment_burst yields (q - 1) payloads of
\* capacity - 24, one of capacity + r - 48 and a final 0; otherwise q payloads
\* of capacity - 24 followed, if r > 0, by one of r - 24. (1210, 1200) gives
\* [1162, 0].
C3_MergeRule ==
    /\ (FragReturned /\ FragPrecondition) =>
          fragment_payloads = C3_Expected(burst_size, fragment_size)
    /\ (FragPrecondition /\ ~ShortRemainder) => pc # "frag_raised"
    /\ (FragReturned /\ burst_size = 1210 /\ fragment_size = 1200) =>
          fragment_payloads = <<1162, 0>>

C3_Witness ==
    /\ FragReturned
    /\ burst_size = 1210
    /\ fragment_size = 1200
    /\ ShortRemainder
    /\ fragment_payloads = <<1162, 0>>

\* C9: size-bounded frames. Whenever fragment_burst returns, every fragment's
\* wire size (payload length + 24) is at most the capacity, and the number
\* of fragments is ceil(burst_size / capacity).
C9_SizeBounded ==
    (FragReturned /\ FragPrecondition) =>
        /\ \A i \in 1..Len(fragment_payloads) :
              fragment_payloads[i] + SEQTS_SIZE_FRAG_HEADER_LEN <= fragment_size
        /\ Len(fragment_payloads)
             = (burst_size + fragment_size - 1) \div fragment_size

C9_Witness ==
    /\ FragReturned
    /\ ShortRemainder
    /\ burst_size = 130
    /\ fragment_size = 60
    /\ Len(fragment_payloads) = 3

\* C10: totality of fragmentation. For a capacity >= 47 and a burst size >= 24
\* fragment_burst returns; for a burst size and a capacity >= 24 it raises
\* exactly when burst_size >= capacity, 0 < r < 24 and capacity + r < 48,
\* which needs a capacity in 24..46, and then with the second-to-last
\* message; the "Last fragment would be too small" branch is never taken.
C10_Totality ==
    /\ (burst_size >= 24 /\ fragment_size >= 47) => pc # "frag_raised"
    /\ (pc # "frag_call" /\ FragPrecondition) =>
          /\ (pc = "frag_raised") <=>
                (ShortRemainder /\ fragment_size + Remainder < 48)
          /\ (pc = "frag_raised") => error = ErrSecondToLastSmall
          /\ (pc = "frag_raised") => fragment_size \in 24..46
    /\ error # ErrLastSmall

C10_Witness ==
    /\ pc = "frag_raised"
    /\ error = ErrSecondToLastSmall
    /\ fragment_size = 46
    /\ burst_size = 47

(***************************************************************************)
(* Properties of the trace generator, under SpecTrace.                     *)
(***************************************************************************)
WellFormed(rows) ==
    \A i \in 1..Len(rows) :
        /\ rows[i].kind # "malformed"
        /\ rows[i].kind = "data" => rows[i].period >= 0

IsData(row) == row.kind = "data"

\* the data rows of the file whose cumulative start, the sum of the periods
\* of all data rows before them, is at least start
ExpectedReplay(rows, start) ==
    LET data == SelectSeq(rows, IsData)
        CumStart(k) == SumSeq([j \in 1..(k - 1) |-> data[j].period])
        Keep == {k \in 1..Len(data) : CumStart(k) >= start}
        \* the n-th kept index, in file order
        Nth(n) == CHOOSE k \in Keep : Cardinality({j \in Keep : j < k}) = n - 1
    IN  [n \in 1..Cardinality(Keep) |-> <<data[Nth(n)].size, data[Nth(n)].period>>]

Pulls == SelectSeq(events, LAMBDA e : e.type = "pull")

Returned == [i \in 1..Len(Pulls) |-> <<Pulls[i].size, Pulls[i].period>>]

\* C4: trace replay sequence. For a well-formed trace and a start_time >= 0
\* the results of generate_burst so far are, in file order, the first rows
\* whose cumulative start is >= start_time; rows that start earlier are never
\* returned; has_next_burst is true exactly while such rows remain unreturned;
\* a call on the empty queue raises and returns no burst.
C4_TraceReplay ==
    (WellFormed(trace_file) /\ pc # "construct") =>
        LET expected == ExpectedReplay(trace_file, _start_time)
        IN  /\ generator = "trace" <=> expected # <<>>
            /\ generator = "trace" =>
                  /\ Len(Returned) <= Len(expected)
                  /\ Returned = SubSeq(expected, 1, Len(Returned))
                  /\ Returned \o _bursts = expected
                  /\ has_next_burst <=> Len(Returned) < Len(expected)
                  /\ pc = "raised" <=> error = ErrConsumed
                  /\ error = ErrConsumed => Returned = expected

C4_Witness ==
    /\ WellFormed(trace_file)
    /\ generator = "trace"
    /\ _start_time = 2
    /\ Len(SelectSeq(trace_file, IsData)) = 3
    /\ Len(Returned) = 1
    /\ pc = "raised"
    /\ error = ErrConsumed

(***************************************************************************)
(* Properties of the sender loop, under SpecPump.                          *)
(***************************************************************************)
IsFrame(i) == events[i].type = "frame"

IsPull(i) == events[i].type = "pull"

\* the pull of the burst that the event at i belongs to
PullOf(i) ==
    CHOOSE j \in 1..(i - 1) :
        IsPull(j) /\ \A k \in (j + 1)..(i - 1) : ~IsPull(k)

\* frames that open a burst, among the events before j
EmittedBefore(j) ==
    Cardinality({k \in 1..(j - 1) : IsFrame(k) /\ events[k].frag_seq = 0})

LastFrames ==
    {i \in 1..Len(events) :
        IsFrame(i) /\ events[i].frag_seq = events[i].total_frags - 1}

\* the loop over the fragments of the burst of frame i is over
FragmentLoopOver(i) ==
    \/ i < Len(events) /\ ~IsFrame(i + 1)
    \/ i = Len(events) /\ pc \in {"post", "loop", "sleep", "done"}

\* C5 as stated: with a burst budget N >= 0 configured, the number of bursts
\* the pump emits never exceeds N; N = 0 emits nothing.
C5_BudgetNeverExceeded ==
    max_bursts # <<>> => EmittedBefore(Len(events) + 1) <= max_bursts[1]

\* C6: burst sequencing and fragment order. The frames of a burst follow its
\* pull with nothing between them, carry frag_seq 0, 1, 2, ... in that order,
\* the same total_frags and the same burst_seq; when the loop over the
\* fragments is over the last frame carries frag_seq = total_frags - 1, so
\* total_frags is the number of frames of the burst; the k-th emitted burst
\* carries burst_seq = k; the counter is one behind the number of completed
\* bursts only between the last fragment and the increment.
C6_Sequencing ==
    /\ \A i \in 1..Len(events) :
          IsFrame(i) =>
              LET j == PullOf(i)
              IN  /\ \A k \in (j + 1)..i : IsFrame(k)
                  /\ events[i].frag_seq = i - j - 1
                  /\ events[i].frag_seq < events[i].total_frags
                  /\ events[i].total_frags = events[j + 1].total_frags
                  /\ events[i].burst_seq = events[j + 1].burst_seq
                  /\ events[i].burst_seq = EmittedBefore(j)
                  /\ (FragmentLoopOver(i) /\ (i = Len(events) \/ ~IsFrame(i + 1)))
                        => events[i].frag_seq = events[i].total_frags - 1
    /\ pc \in {"loop", "emit", "post", "sleep", "done", "crashed"} =>
          burst_seq = Cardinality(LastFrames) - (IF pc = "post" THEN 1 ELSE 0)

C6_Witness ==
    /\ pc = "post"
    /\ burst_seq = 1
    /\ Len(fragment_payloads) = 3
    /\ Len(events) >= 2
    /\ IsFrame(Len(events))
    /\ events[Len(events)].frag_seq = 2
    /\ events[Len(events)].burst_seq = 1
    /\ \E i \in 1..Len(events) : events[i].type = "sleep"

\* an under-header pull is followed, if by anything, by the next pull
SkippedThenPull ==
    \A i \in 1..(Len(events) - 1) :
        (IsPull(i) /\ events[i].size < SEQTS_SIZE_FRAG_HEADER_LEN)
            => IsPull(i + 1)

\* the step that pulls an under-header burst appends the pull alone, leaves
\* both counters and returns to the loop test
SkipStep ==
    (/\ events' # events
     /\ events'[Len(events')].type = "pull"
     /\ events'[Len(events')].size < SEQTS_SIZE_FRAG_HEADER_LEN)
    => /\ events' = Append(events, events'[Len(events')])
       /\ burst_seq' = burst_seq
       /\ bursts_sent' = bursts_sent
       /\ pc' = "loop"
       /\ error' = error

\* C7: under-header burst skip. A burst of fewer than 24 bytes gets no frame
\* and no wait, leaves burst_seq and bursts_sent as they were, and the pump
\* goes on to the loop test and the next pull.
C7_UnderHeaderSkip == [][SkipStep]_vars /\ []SkippedThenPull

C7_Witness ==
    /\ pc = "emit"
    /\ burst_seq = 1
    /\ bursts_sent = 1
    /\ Len(events) >= 4
    /\ IsPull(Len(events))
    /\ IsPull(Len(events) - 1)
    /\ events[Len(events) - 1].size < SEQTS_SIZE_FRAG_HEADER_LEN
    /\ IsFrame(Len(events) - 2)

\* C8 as stated: after the last fragment of every emitted burst, once the
\* counter is incremented, the pump sleeps for the burst's period exactly
\* when the period is > 0, the burst that reaches the budget included.
C8_PacingAfterEveryBurst ==
    \A i \in LastFrames :
        (i < Len(events) \/ pc \in {"loop", "sleep", "done"}) =>
            LET per == events[PullOf(i)].period
            IN  IF per > 0
                THEN i < Len(events) /\ events[i + 1] = SleepEvent(per)
                ELSE i = Len(events) \/ events[i + 1].type # "sleep"

====
